---- MODULE Spec2Model ----
(***************************************************************************)
(* Verification model of rf_header_libs: the multi-threaded resource       *)
(* loader (mt_resource_loading.h and its rf_mtr copy in rf_darray.h), the   *)
(* two dynamic-array libraries (rf_darray.h and the older darray), the     *)
(* string builders (rf_dstring.h, dstring.h and the older dstring), the    *)
(* hash table (rf_hashtable.h), the buttons of rf_ui.h, and the uint32_t   *)
(* capacity computations of the arrays and the string builders.            *)
(*                                                                         *)
(* The loader is modelled as two threads, the caller ("main") and the      *)
(* load thread ("worker"), each with a program counter; one step is one    *)
(* lock acquisition, or the statements between a lock and its unlock, or   *)
(* the statements the thread runs without the lock up to the next lock.    *)
(***************************************************************************)
EXTENDS Integers, Sequences, FiniteSets, TLC

VARIABLES
    \* ---- loader (rf_ResourceMaster / mtr_ResourceMaster) ----
    variant,        \* "mtr" (mt_resource_loading.h) or "rf_mtr" (rf_darray.h)
    files,          \* the filesystem: slot -> Absent or the file's bytes
    need_load,      \* r->need_load
    is_loading,     \* r->is_loading
    need_finish,    \* r->need_finish
    load_thread,    \* r->load_thread: "uninit", "live" or "joined"
    nthreads,       \* threads created and not yet joined
    mutex,          \* r->mutex: "free", "main", "worker" or "destroyed"
    res_need_load,  \* r->resources[i].need_load
    res_data,       \* r->resources[i].data (NULL or a heap block)
    res_data_len,   \* r->resources[i].data_len
    heap,           \* blocks made by calloc: <<[bytes, live]>>, block id = index
    resources_live, \* r->resources has not been freed
    master_live,    \* *r has not been freed
    \* ---- load thread ----
    wpc,            \* position of the load thread
    wi,             \* its loop index i
    w_buffer,       \* its local buffer (heap block) and file_size
    \* ---- caller thread ----
    cpc,            \* position of the caller thread
    c_idx,          \* index argument of the call in progress
    ret,            \* value returned by the last ready/grab call (-1: none yet)
    out_data,       \* caller's *data out-parameter
    out_len,        \* caller's *data_len out-parameter
    \* ---- history ----
    grabbed,        \* heap blocks handed to the caller by grab, in order
    nreq,           \* number of request calls made
    ncleanup,       \* number of clean_up calls made
    fault,          \* undefined behaviours hit so far
    halted,         \* the process crashed / its behaviour is no longer defined
    \* ---- dynamic arrays ----
    da_variant,     \* "rf_da" (rf_darray.h) or "da" (older darray)
    arr,            \* the array handle: [null, size, cap, data]
    pushed,         \* values pushed so far, in order (push-only runs)
    da_fault,       \* undefined behaviours an array call has hit
    last,           \* the call made last in a run that looks back at it:
                    \* [op, saved (the array before it), pos, src]
    \* ---- string builders ----
    ds_variant,     \* "rf_ds" (rf_dstring.h), "ds" (dstring.h), "ds0" (older dstring)
    str,            \* the builder handle: [null, live, size, cap, data]
    ds_op,          \* the builder call made last
    ds_fault,       \* undefined behaviours a builder call has hit
    \* ---- hash table ----
    h_array,        \* h.array: bucket -> first node (0: NULL)
    h_array_size,   \* h.array_size
    h_nodes,        \* nodes made by calloc: <<[data, next, live]>>, id = index
    h_ret,          \* value returned by the last call (-1: none yet)
    h_out,          \* the caller's element that rf_hash_get copies into
    h_log,          \* the calls made so far: <<[op, key, value]>>
    h_fault,        \* undefined behaviours a hash table call has hit
    \* ---- UI ----
    ui_hot,         \* ui.hot (-1: none)
    ui_active,      \* ui.active (-1: none)
    ui_focus,       \* ui.current_focus_id (< 0: mouse mode)
    ui_cursor_x,    \* ui.cursor_x
    ui_left_mouse,  \* ui.controls[RF_UI_CONTROL_LEFT_MOUSE]
    ui_pc,          \* where the frame is: 0 before rf_ui_begin, the id of the
                    \* button drawn next, or 3 before rf_ui_end
    ui_ret,         \* button id -> what rf_button returned for it last
    ui_armed,       \* button id -> it was pressed on and has not fired since
    ui_frame,       \* frames begun so far
    \* ---- capacity computations on uint32_t ----
    g_fn,           \* "rf_da" (_rf__da_grow), "rf_ds" (_rf__ds_grow), "ds" (_ds_grow)
    g_required,     \* required_elements / required_chars
    g_cap,          \* the capacity before the call, then new_cap
    g_pc,           \* position in the grow function
    g_iter,         \* iterations of the while loop made so far
    g_wrapped       \* an operation on new_cap has wrapped around

loader_vars == <<variant, files, need_load, is_loading, need_finish, load_thread,
                 nthreads, mutex, res_need_load, res_data, res_data_len, heap,
                 resources_live, master_live, wpc, wi, w_buffer, cpc, c_idx,
                 ret, out_data, out_len, grabbed, nreq, ncleanup,
                 fault, halted>>

da_vars == <<da_variant, arr, pushed, da_fault, last>>

ds_vars == <<ds_variant, str, ds_op, ds_fault>>

hash_vars == <<h_array, h_array_size, h_nodes, h_ret, h_out, h_log, h_fault>>

ui_vars == <<ui_hot, ui_active, ui_focus, ui_cursor_x, ui_left_mouse, ui_pc,
             ui_ret, ui_armed, ui_frame>>

grow_vars == <<g_fn, g_required, g_cap, g_pc, g_iter, g_wrapped>>

vars == <<loader_vars, da_vars, ds_vars, hash_vars, ui_vars, grow_vars>>

\* what the steps of one library leave alone: the state of the others
beside_loader == <<da_vars, ds_vars, hash_vars, ui_vars, grow_vars>>
beside_da == <<loader_vars, ds_vars, hash_vars, ui_vars, grow_vars>>
beside_ds == <<loader_vars, da_vars, hash_vars, ui_vars, grow_vars>>
beside_hash == <<loader_vars, da_vars, ds_vars, ui_vars, grow_vars>>
beside_ui == <<loader_vars, da_vars, ds_vars, hash_vars, grow_vars>>
beside_grow == <<loader_vars, da_vars, ds_vars, hash_vars, ui_vars>>

----------------------------------------------------------------------------
(* Bounds *)

\* resource_count passed to mtr_new / rf_mtr_init
NumResources == 2
\* request calls per run (each load needs a request, so this bounds calloc too)
MaxRequests == 2
\* clean_up calls per run
MaxCleanUps == 2

NULL == 0
Absent == <<-1>>
Slots == 0 .. (NumResources - 1)
\* what a file may hold: nothing there, an empty file, a two-byte file
FileChoices == {Absent, <<>>, <<104, 105>>}

----------------------------------------------------------------------------
(* Loader: construction *)

\* mtr_new / rf_mtr_init: flags 0, calloc'ed table (need_load 0, data NULL,
\* data_len 0), load_thread left uninitialised.
LoaderInit ==
    /\ variant \in {"mtr", "rf_mtr"}
    /\ files \in [Slots -> FileChoices]
    /\ need_load = 0
    /\ is_loading = 0
    /\ need_finish = 0
    /\ load_thread = "uninit"
    /\ nthreads = 0
    /\ mutex = "free"
    /\ res_need_load = [s \in Slots |-> 0]
    /\ res_data = [s \in Slots |-> NULL]
    /\ res_data_len = [s \in Slots |-> 0]
    /\ heap = <<>>
    /\ resources_live = TRUE
    /\ master_live = TRUE
    /\ wpc = "none"
    /\ wi = 0
    /\ w_buffer = NULL
    /\ cpc = "idle"
    /\ c_idx = 0
    /\ ret = -1
    /\ out_data = NULL
    /\ out_len = 0
    /\ grabbed = <<>>
    /\ nreq = 0
    /\ ncleanup = 0
    /\ fault = {}
    /\ halted = FALSE

\* the caller may start a call on a loader that has not been cleaned up
CallerIdle == cpc = "idle" /\ ~halted /\ ncleanup = 0

----------------------------------------------------------------------------
(* Loader: the variables each step leaves alone, in groups *)

env == <<variant, files>>
flags == <<need_load, is_loading, need_finish>>
thread == <<load_thread, nthreads>>
slots == <<res_need_load, res_data, res_data_len>>
memory == <<heap, resources_live, master_live>>
worker == <<wpc, wi, w_buffer>>
results == <<ret, out_data, out_len, grabbed>>
counts == <<nreq, ncleanup>>
hazards == <<fault, halted>>

----------------------------------------------------------------------------
(* Loader: pthread primitives *)

\* pthread_mutex_lock returns once the mutex is free
CanLock == mutex = "free"

\* pthread_join(r->load_thread) on a created, unjoined thread returns once the
\* thread function has returned
JoinReturns == load_thread = "live" => wpc = "done"

\* pthread_join on a handle that was never set by pthread_create, or whose
\* thread was joined before, is undefined
JoinIsInvalid == load_thread # "live"

----------------------------------------------------------------------------
(* Loader: mtr_request_resource / rf_mtr_request *)

\* the call is made
request_call(s) ==
    /\ CallerIdle
    /\ nreq < MaxRequests
    /\ c_idx' = s
    /\ nreq' = nreq + 1
    /\ cpc' = "req"
    /\ UNCHANGED <<env, flags, thread, mutex, slots, memory, worker, results,
                   ncleanup, hazards, beside_loader>>

\* r->resources[index].need_load = 1;   (before the lock is taken)
request_write ==
    /\ cpc = "req" /\ ~halted
    /\ res_need_load' = [res_need_load EXCEPT ![c_idx] = 1]
    /\ cpc' = "req_lock"
    /\ UNCHANGED <<env, flags, thread, mutex, res_data, res_data_len, memory,
                   worker, c_idx, results, counts, hazards, beside_loader>>

\* pthread_mutex_lock(&r->mutex);
request_lock ==
    /\ cpc = "req_lock" /\ ~halted
    /\ CanLock
    /\ mutex' = "main"
    /\ cpc' = "req_set"
    /\ UNCHANGED <<env, flags, thread, slots, memory, worker, c_idx, results,
                   counts, hazards, beside_loader>>

\* r->need_load = 1; pthread_mutex_unlock(&r->mutex);
request_set ==
    /\ cpc = "req_set" /\ ~halted
    /\ need_load' = 1
    /\ mutex' = "free"
    /\ cpc' = "idle"
    /\ UNCHANGED <<env, is_loading, need_finish, thread, slots, memory, worker,
                   c_idx, ret, out_data, out_len, grabbed, counts, hazards,
                   beside_loader>>

----------------------------------------------------------------------------
(* Loader: mtr_update / rf_mtr_update *)

\* the call is made
update_call ==
    /\ CallerIdle
    /\ cpc' = "upd"
    /\ UNCHANGED <<env, flags, thread, mutex, slots, memory, worker, c_idx,
                   results, counts, hazards, beside_loader>>

\* if(r->is_loading) ... else { if(r->need_load) ... }
UpdateChecksFinish == is_loading = 1

\* the spawn branch had it been taken on need_load alone, is_loading ignored
\* (what C3 rules out)
UpdateSpawns_ignoring_is_loading == need_load = 1

UpdateSpawns == is_loading = 0 /\ need_load = 1

update_branch ==
    /\ cpc = "upd" /\ ~halted
    /\ cpc' = IF UpdateSpawns THEN "upd_spawn"
              ELSE IF UpdateChecksFinish THEN "upd_trylock"
              ELSE "idle"
    /\ UNCHANGED <<env, flags, thread, mutex, slots, memory, worker, c_idx,
                   ret, out_data, out_len, grabbed, counts, hazards,
                   beside_loader>>

\* int8_t finished = 0; if(!pthread_mutex_trylock(&r->mutex)) ...
\* a failed trylock leaves finished 0 and the call returns
update_trylock ==
    /\ cpc = "upd_trylock" /\ ~halted
    /\ IF CanLock
         THEN mutex' = "main" /\ cpc' = "upd_read"
         ELSE mutex' = mutex /\ cpc' = "idle"
    /\ UNCHANGED <<env, flags, thread, slots, memory, worker, c_idx,
                   ret, out_data, out_len, grabbed, counts, hazards,
                   beside_loader>>

\* the step had the join not depended on the flag read (what C21 rules out)
update_read_unconditional_join ==
    /\ cpc = "upd_read" /\ ~halted
    /\ mutex' = "free"
    /\ cpc' = "upd_join"
    /\ UNCHANGED <<env, flags, thread, slots, memory, worker, c_idx,
                   ret, out_data, out_len, grabbed, counts, hazards,
                   beside_loader>>

\* finished = r->need_finish; pthread_mutex_unlock(&r->mutex); if(finished) ...
update_read ==
    /\ cpc = "upd_read" /\ ~halted
    /\ mutex' = "free"
    /\ cpc' = IF need_finish = 1 THEN "upd_join" ELSE "idle"
    /\ UNCHANGED <<env, flags, thread, slots, memory, worker, c_idx,
                   ret, out_data, out_len, grabbed, counts, hazards,
                   beside_loader>>

\* pthread_join(r->load_thread, NULL);
\* r->need_load = 0; r->is_loading = 0; r->need_finish = 0;
update_join ==
    /\ cpc = "upd_join" /\ ~halted
    /\ JoinReturns
    /\ IF JoinIsInvalid
         THEN /\ fault' = fault \cup {"invalid_join"}
              /\ UNCHANGED <<thread, wpc>>
         ELSE /\ load_thread' = "joined"
              /\ nthreads' = nthreads - 1
              /\ wpc' = "none"
              /\ UNCHANGED fault
    /\ need_load' = 0
    /\ is_loading' = 0
    /\ need_finish' = 0
    /\ cpc' = "idle"
    /\ UNCHANGED <<env, mutex, slots, memory, wi, w_buffer, c_idx,
                   ret, out_data, out_len, grabbed, counts, halted,
                   beside_loader>>

\* pthread_join(r->load_thread, NULL); r->is_loading = 1;
\* pthread_create(&r->load_thread, NULL, _mtr_resource_load_thread, r);
\* The join is on a handle with no joinable thread behind it (never created,
\* or joined by the other branch): it returns an error or the process dies (h).
update_spawn(h) ==
    /\ cpc = "upd_spawn" /\ ~halted
    /\ JoinReturns
    /\ IF JoinIsInvalid
         THEN fault' = fault \cup {"invalid_join"} /\ halted' = h
         ELSE UNCHANGED <<fault, halted>>
    /\ IF halted'
         THEN UNCHANGED <<is_loading, thread, wpc, wi, cpc>>
         ELSE /\ is_loading' = 1
              /\ load_thread' = "live"
              /\ nthreads' = (IF JoinIsInvalid THEN nthreads ELSE nthreads - 1) + 1
              /\ wpc' = "check"
              /\ wi' = 0
              /\ cpc' = "idle"
    /\ UNCHANGED <<env, need_load, need_finish, mutex, slots, memory, w_buffer,
                   c_idx, ret, out_data, out_len, grabbed, counts,
                   beside_loader>>

----------------------------------------------------------------------------
(* Loader: mtr_resource_data_ready / rf_mtr_resource_ready *)

\* pthread_mutex_lock(&r->mutex);
resource_ready_lock(s) ==
    /\ CallerIdle
    /\ CanLock
    /\ mutex' = "main"
    /\ c_idx' = s
    /\ cpc' = "rdy"
    /\ UNCHANGED <<env, flags, thread, slots, memory, worker, results, counts,
                   hazards, beside_loader>>

\* if(r->resources[index].data) { unlock; return 1; } unlock; return 0;
ReadyResult(s) == IF res_data[s] # NULL THEN 1 ELSE 0

resource_ready_body ==
    /\ cpc = "rdy" /\ ~halted
    /\ ret' = ReadyResult(c_idx)
    /\ mutex' = "free"
    /\ cpc' = "idle"
    /\ UNCHANGED <<env, flags, thread, slots, memory, worker, c_idx, out_data,
                   out_len, grabbed, counts, hazards, beside_loader>>

----------------------------------------------------------------------------
(* Loader: mtr_grab_resource_data / rf_mtr_grab_resource_data *)

\* pthread_mutex_lock(&r->mutex);
grab_lock(s) ==
    /\ CallerIdle
    /\ CanLock
    /\ mutex' = "main"
    /\ c_idx' = s
    /\ cpc' = "grab"
    /\ UNCHANGED <<env, flags, thread, slots, memory, worker, results, counts,
                   hazards, beside_loader>>

\* if(r->resources[index].data)
GrabHasData(s) == res_data[s] # NULL

\* the grab had it handed the pointer out without clearing it in the slot
\* (what C6 rules out)
GrabClear_keeping_pointer(s) ==
    /\ res_data' = res_data
    /\ res_data_len' = [res_data_len EXCEPT ![s] = 0]

\* r->resources[index].data = NULL; r->resources[index].data_len = 0;
GrabClear(s) ==
    /\ res_data' = [res_data EXCEPT ![s] = NULL]
    /\ res_data_len' = [res_data_len EXCEPT ![s] = 0]

\* *data = ...data; *data_len = ...data_len; clear; unlock; return 1;
\* otherwise unlock; return 0;
grab_body ==
    /\ cpc = "grab" /\ ~halted
    /\ IF GrabHasData(c_idx)
         THEN /\ out_data' = res_data[c_idx]
              /\ out_len' = res_data_len[c_idx]
              /\ GrabClear(c_idx)
              /\ grabbed' = Append(grabbed, res_data[c_idx])
              /\ ret' = 1
         ELSE /\ UNCHANGED <<out_data, out_len, res_data, res_data_len, grabbed>>
              /\ ret' = 0
    /\ mutex' = "free"
    /\ cpc' = "idle"
    /\ UNCHANGED <<env, flags, thread, res_need_load, memory, worker, c_idx,
                   counts, hazards, beside_loader>>

----------------------------------------------------------------------------
(* Loader: the load thread, _mtr_resource_load_thread /                     *)
(* _rf__mtr_resource_load_thread                                            *)

\* the thread runs and the slot table it walks has not been freed
WorkerAt(pc) == wpc = pc /\ ~halted /\ resources_live

\* for(i = 0; i < r->resource_count; i++) { if(r->resources[i].need_load) ...
\* the flag is read without the lock
lt_check ==
    /\ WorkerAt("check")
    /\ IF wi < NumResources
         THEN IF res_need_load[wi] = 1
                THEN wpc' = "lock1" /\ wi' = wi
                ELSE wpc' = "check" /\ wi' = wi + 1
         ELSE wpc' = "fin_lock" /\ wi' = wi
    /\ UNCHANGED <<env, flags, thread, mutex, slots, memory, w_buffer, cpc,
                   c_idx, results, counts, hazards, beside_loader>>

\* pthread_mutex_lock(&r->mutex);   (the three in the loop and the last one)
lt_lock(from, to) ==
    /\ WorkerAt(from)
    /\ CanLock
    /\ mutex' = "worker"
    /\ wpc' = to
    /\ UNCHANGED <<env, flags, thread, slots, memory, wi, w_buffer, cpc, c_idx,
                   results, counts, hazards, beside_loader>>

\* the test had the load thread loaded every pending slot, data or not
\* (what C22 rules out)
LoadNeeded_whatever_the_slot_holds(s) == TRUE

\* int8_t data_loaded = r->resources[i].data != 0; unlock; if(!data_loaded) ...
LoadNeeded(s) == res_data[s] = NULL

\* the step had the mutex been kept for the file read (what C23 rules out)
lt_read_data_keeping_mutex ==
    /\ WorkerAt("read_data")
    /\ wpc' = IF res_data[wi] = NULL THEN "open" ELSE "lock3"
    /\ UNCHANGED <<env, flags, thread, mutex, slots, memory, wi, w_buffer, cpc,
                   c_idx, results, counts, hazards, beside_loader>>

lt_read_data ==
    /\ WorkerAt("read_data")
    /\ mutex' = "free"
    /\ wpc' = IF LoadNeeded(wi) THEN "open" ELSE "lock3"
    /\ UNCHANGED <<env, flags, thread, slots, memory, wi, w_buffer, cpc, c_idx,
                   results, counts, hazards, beside_loader>>

\* FILE *file = fopen(filename, "rb"); if(file) ...
FileOpens(s) == files[s] # Absent

\* the step had the result of fopen not been tested (what C7 rules out)
lt_open_unchecked ==
    /\ WorkerAt("open")
    /\ wpc' = "read"
    /\ UNCHANGED <<env, flags, thread, mutex, slots, memory, wi, w_buffer, cpc,
                   c_idx, results, counts, hazards, beside_loader>>

lt_open ==
    /\ WorkerAt("open")
    /\ wpc' = IF FileOpens(wi) THEN "read" ELSE "lock3"
    /\ UNCHANGED <<env, flags, thread, mutex, slots, memory, wi, w_buffer, cpc,
                   c_idx, results, counts, hazards, beside_loader>>

\* fseek/ftell/rewind; buffer = calloc(file_size + 1, 1); fread; fclose;
\* the block holds the file's bytes (and a trailing 0 beyond file_size)
FileBlock(s) == [bytes |-> files[s], live |-> TRUE]

lt_read ==
    /\ WorkerAt("read")
    /\ heap' = Append(heap, FileBlock(wi))
    /\ w_buffer' = Len(heap) + 1
    /\ wpc' = "lock2"
    /\ UNCHANGED <<env, flags, thread, mutex, slots, resources_live,
                   master_live, wi, cpc, c_idx, results, counts, hazards,
                   beside_loader>>

\* r->resources[i].data_len = file_size; r->resources[i].data = buffer; unlock;
StoreData(s, b) ==
    /\ res_data_len' = [res_data_len EXCEPT ![s] = Len(heap[b].bytes)]
    /\ res_data' = [res_data EXCEPT ![s] = b]

lt_store ==
    /\ WorkerAt("store")
    /\ StoreData(wi, w_buffer)
    /\ w_buffer' = NULL
    /\ mutex' = "free"
    /\ wpc' = "lock3"
    /\ UNCHANGED <<env, flags, thread, res_need_load, memory, wi, cpc, c_idx,
                   results, counts, hazards, beside_loader>>

\* r->resources[i].need_load = 0; unlock; then i++
ClearNeedLoad(s) == res_need_load' = [res_need_load EXCEPT ![s] = 0]

lt_clear ==
    /\ WorkerAt("clear")
    /\ ClearNeedLoad(wi)
    /\ mutex' = "free"
    /\ wi' = wi + 1
    /\ wpc' = "check"
    /\ UNCHANGED <<env, flags, thread, res_data, res_data_len, memory, w_buffer,
                   cpc, c_idx, results, counts, hazards, beside_loader>>

\* r->need_finish = 1; unlock; return NULL;
lt_finish ==
    /\ WorkerAt("fin")
    /\ need_finish' = 1
    /\ mutex' = "free"
    /\ wpc' = "done"
    /\ UNCHANGED <<env, need_load, is_loading, thread, slots, memory, wi,
                   w_buffer, cpc, c_idx, results, counts, hazards, beside_loader>>

\* the thread is still running when the slot table has been freed under it:
\* its next access is to freed memory
lt_use_after_free ==
    /\ wpc \notin {"none", "done"} /\ ~halted
    /\ ~resources_live
    /\ fault' = fault \cup {"use_after_free"}
    /\ halted' = TRUE
    /\ UNCHANGED <<env, flags, thread, mutex, slots, memory, worker, cpc, c_idx,
                   results, counts, beside_loader>>

lt_step ==
    \/ lt_check
    \/ lt_lock("lock1", "read_data")
    \/ lt_read_data
    \/ lt_open
    \/ lt_read
    \/ lt_lock("lock2", "store")
    \/ lt_store
    \/ lt_lock("lock3", "clear")
    \/ lt_clear
    \/ lt_lock("fin_lock", "fin")
    \/ lt_finish

----------------------------------------------------------------------------
(* Loader: mtr_clean_up / rf_mtr_clean_up *)

\* clean_up may be called whenever the caller is between calls
CanCleanUp == cpc = "idle" /\ ~halted /\ ncleanup < MaxCleanUps

\* for(i...) free(r->resources[i].data);
FreePayloads(h) ==
    [b \in DOMAIN h |->
        IF \E s \in Slots : res_data[s] = b THEN [h[b] EXCEPT !.live = FALSE]
        ELSE h[b]]

\* mtr_clean_up: free every payload, free(r->resources), free(r); no join.
\* A second call reads the freed master and frees everything again.
clean_up_mtr ==
    /\ CanCleanUp
    /\ variant = "mtr"
    /\ ncleanup' = ncleanup + 1
    /\ IF master_live
         THEN /\ heap' = FreePayloads(heap)
              /\ resources_live' = FALSE
              /\ master_live' = FALSE
              /\ UNCHANGED hazards
         ELSE /\ fault' = fault \cup {"use_after_free", "double_free"}
              /\ halted' = TRUE
              /\ UNCHANGED memory
    /\ UNCHANGED <<env, flags, thread, mutex, slots, worker, cpc, c_idx, ret,
                   out_data, out_len, grabbed, nreq, beside_loader>>

\* rf_mtr_clean_up, first statement: pthread_join(r->load_thread, NULL);
\* it waits for a live thread; with no joinable thread behind the handle it
\* returns an error or the process dies (h)
clean_up_rf_join(h) ==
    /\ CanCleanUp
    /\ variant = "rf_mtr"
    /\ JoinReturns
    /\ ncleanup' = ncleanup + 1
    /\ IF JoinIsInvalid
         THEN /\ fault' = fault \cup {"invalid_join"}
              /\ halted' = h
              /\ UNCHANGED <<thread, wpc>>
         ELSE /\ load_thread' = "joined"
              /\ nthreads' = nthreads - 1
              /\ wpc' = "none"
              /\ UNCHANGED hazards
    /\ cpc' = IF halted' THEN cpc ELSE "clean_free"
    /\ UNCHANGED <<env, flags, mutex, slots, memory, wi, w_buffer, c_idx,
                   results, nreq, beside_loader>>

\* pthread_mutex_destroy(&r->mutex); for(i...) free(r->resources[i].data);
\* free(r->resources);   r->resources and the data pointers are left dangling,
\* so a second call frees them again
clean_up_rf_free ==
    /\ cpc = "clean_free" /\ ~halted
    /\ IF resources_live
         THEN /\ mutex' = "destroyed"
              /\ heap' = FreePayloads(heap)
              /\ resources_live' = FALSE
              /\ cpc' = "idle"
              /\ UNCHANGED <<master_live, hazards>>
         ELSE /\ fault' = fault \cup {"use_after_free", "double_free"}
              /\ halted' = TRUE
              /\ UNCHANGED <<mutex, memory, cpc>>
    /\ UNCHANGED <<env, flags, thread, slots, worker, c_idx, ret,
                   out_data, out_len, grabbed, counts, beside_loader>>

----------------------------------------------------------------------------
(* Dynamic arrays: bounds and inputs *)

\* Sizes and capacities are uint32_t in the source; every value computed here
\* stays far below 2^31, where unsigned and integer arithmetic agree.

\* _RF_DARRAY_START_CAP / _DARRAY_START_CAP
START_CAP == 32
\* longest array built when all operations are mixed
MaxLen == 34
\* number of pushes in a push-only run
MaxPush == 66
\* array length below which inserted values vary
VarLen == 2

\* element values; Filler is what is stored once the array is VarLen long
Values == {1, 2}
Filler == 1
\* contents of a slot that holds no live element (never written, or dead)
Junk == -1
\* what the size word of a block fresh from realloc(NULL, ...) may read as
Uninit == {0, 3, 40}

\* the array handle: a NULL pointer, or a block with its two header words
\* (size, cap) and its live elements data[1 .. size]
NullArray == [null |-> TRUE, size |-> 0, cap |-> 0, data |-> <<>>]
IsNull(a) == a.null
\* no call to look back at
NoOp == [op |-> "none", saved |-> NullArray, pos |-> 0, src |-> NullArray]

\* values an insertion may take when the array has n elements
ElemInputs(n) == IF n < VarLen THEN Values ELSE {Filler}
\* values the n-th push (from 0) of a push-only run may take
PushInputs(n) == IF n < VarLen THEN Values ELSE {3 + (n % 5)}

\* a | b on unsigned integers
RECURSIVE BitOr(_, _)
BitOr(a, b) ==
    IF a = 0 THEN b
    ELSE IF b = 0 THEN a
    ELSE (IF a % 2 = 1 \/ b % 2 = 1 THEN 1 ELSE 0) + 2 * BitOr(a \div 2, b \div 2)

\* an insert that wrote the element at pos without moving the tail up
\* (what C24 rules out)
InsertAt_tail_not_moved(s, pos, e) ==
    SubSeq(s, 1, pos) \o <<e>> \o SubSeq(s, pos + 2, Len(s))
        \o (IF pos < Len(s) THEN <<Junk>> ELSE <<>>)

\* memmove of the tail one slot up followed by memcpy of the element at pos
InsertAt(s, pos, e) == SubSeq(s, 1, pos) \o <<e>> \o SubSeq(s, pos + 1, Len(s))

\* an erase that only dropped the last slot, the tail not moved down
\* (what C11 rules out)
RemoveAt_tail_not_moved(s, pos) == SubSeq(s, 1, Len(s) - 1)

\* memmove of the tail one slot down over the element at pos
RemoveAt(s, pos) == SubSeq(s, 1, pos) \o SubSeq(s, pos + 2, Len(s))

\* writing elements up to index n - 1 of a block of cap elements
Overrun(n, cap) == IF n > cap THEN {"out_of_bounds"} ELSE {}

\* a realloc that moved the block without its contents (what C9 rules out)
Realloc_dropping_contents(a, g) ==
    IF IsNull(a)
      THEN [null |-> FALSE, size |-> g, cap |-> g, data |-> [i \in 1 .. g |-> Junk]]
      ELSE [a EXCEPT !.data = [i \in 1 .. a.size |-> Junk]]

\* realloc of the raw block (header and elements): a fresh block when the
\* handle is NULL, its header words uninitialised (g); otherwise the same
\* header and elements in a block of the new size
Realloc(a, g) ==
    IF IsNull(a)
      THEN [null |-> FALSE, size |-> g, cap |-> g, data |-> [i \in 1 .. g |-> Junk]]
      ELSE a

----------------------------------------------------------------------------
(* Dynamic arrays: rf_darray.h *)

rf_da_size(a) == IF ~IsNull(a) THEN a.size ELSE 0
rf_da_cap(a) == IF ~IsNull(a) THEN a.cap ELSE 0

\* new_cap = max(required, START_CAP) - 1, smeared right, + 1
rf_new_cap(required_elements) ==
    LET c0 == ((IF required_elements > START_CAP THEN required_elements
                   ELSE START_CAP) - 1)
        c1 == BitOr(c0, c0 \div 2)
        c2 == BitOr(c1, c1 \div 4)
        c3 == BitOr(c2, c2 \div 16)
        c4 == BitOr(c3, c3 \div 256)
        c5 == BitOr(c4, c4 \div 65536)
    IN  (c5 + 1)

\* _rf__da_grow: realloc to new_cap elements, then write the cap word
rf__da_grow(a, required_elements, g) ==
    [Realloc(a, g) EXCEPT !.cap = rf_new_cap(required_elements)]

\* _rf__da_insert; result: the array and the undefined behaviours hit
rf__da_insert(a, e, pos, g) ==
    LET array_null == IsNull(a)
        a1 == IF rf_da_cap(a) < (rf_da_size(a) + 1)
                THEN rf__da_grow(a, (rf_da_size(a) + 1), g)
                ELSE a
        a2 == IF array_null THEN [a1 EXCEPT !.size = 0, !.data = <<>>] ELSE a1
    IN  [a   |-> [a2 EXCEPT !.data = InsertAt(a2.data, pos, e),
                            !.size = (a2.size + 1)],
         faults |-> Overrun(a2.size + 1, a2.cap)]

\* rf_da_push(a, e): insert at rf_da_size(a)
rf_da_push(a, e, g) == rf__da_insert(a, e, rf_da_size(a), g)

\* _rf__da_erase
rf__da_erase(a, pos) ==
    [a EXCEPT !.data = RemoveAt(a.data, pos), !.size = a.size - 1]

\* rf_da_pop(a) / rf_da_erase(a, i): nothing when the array is empty
rf_da_pop(a) == IF rf_da_size(a) # 0 THEN rf__da_erase(a, rf_da_size(a) - 1) ELSE a
rf_da_erase(a, i) == IF rf_da_size(a) # 0 THEN rf__da_erase(a, i) ELSE a

\* _rf__da_concat: grow to the sum (always), memcpy src at dest's size, add;
\* for a NULL dest the size word read was never written
rf__da_concat(dest, src, g) ==
    LET d1 == rf__da_grow(dest, (rf_da_size(dest) + rf_da_size(src)), g)
    IN  [a   |-> [d1 EXCEPT !.data = d1.data \o src.data,
                            !.size = (d1.size + rf_da_size(src))],
         faults |-> Overrun(d1.size + rf_da_size(src), d1.cap)
                    \cup (IF IsNull(dest) THEN {"uninit_read"} ELSE {})]

\* rf_da_concat(a, b): nothing when b is empty
rf_da_concat(a, b, g) ==
    IF rf_da_size(b) # 0 THEN rf__da_concat(a, b, g) ELSE [a |-> a, faults |-> {}]

\* rf_da_clear(a)
rf_da_clear(a) == IF rf_da_size(a) # 0 THEN [a EXCEPT !.size = 0, !.data = <<>>] ELSE a

\* rf_da_free(a)
rf_da_free(a) == NullArray

----------------------------------------------------------------------------
(* Dynamic arrays: the older darray *)

da_size(a) == IF ~IsNull(a) THEN a.size ELSE 0
da_cap(a) == IF ~IsNull(a) THEN a.cap ELSE 0

\* _da_free
da_free(a) == NullArray

\* _da_grow: START_CAP for a NULL handle, cap + cap / 2 when full, else as is;
\* after a realloc both header words are written
da_grow(a, g) ==
    IF IsNull(a)
      THEN [Realloc(a, g) EXCEPT !.size = 0, !.cap = START_CAP, !.data = <<>>]
      ELSE IF da_size(a) >= da_cap(a)
             THEN [Realloc(a, g) EXCEPT !.size = da_size(a),
                                        !.cap = (da_cap(a) + (da_cap(a) \div 2))]
             ELSE a

\* _da_push; result: the array and the undefined behaviours hit
da_push(a, e, g) ==
    LET a1 == da_grow(a, g)
    IN  [a   |-> [a1 EXCEPT !.data = Append(a1.data, e), !.size = (a1.size + 1)],
         faults |-> Overrun(a1.size + 1, a1.cap)]

\* _da_insert
da_insert(a, e, pos, g) ==
    LET a1 == da_grow(a, g)
    IN  [a   |-> [a1 EXCEPT !.data = InsertAt(a1.data, pos, e),
                            !.size = (a1.size + 1)],
         faults |-> Overrun(a1.size + 1, a1.cap)]

\* da_pop(a): _da_pop when the array is not empty; frees an emptied array
da_pop(a) ==
    IF da_size(a) # 0
      THEN LET a1 == [a EXCEPT !.data = SubSeq(a.data, 1, a.size - 1),
                               !.size = a.size - 1]
           IN  IF a1.size < 1 THEN da_free(a1) ELSE a1
      ELSE a

\* da_erase(a, i): _da_erase when the array is not empty
da_erase(a, i) ==
    IF da_size(a) # 0
      THEN LET a1 == [a EXCEPT !.data = RemoveAt(a.data, i), !.size = a.size - 1]
           IN  IF a1.size < 1 THEN da_free(a1) ELSE a1
      ELSE a

\* a shrink that gave back half of the capacity (what C27 rules out)
da_shrink_by_half(a) ==
    IF da_size(a) > 0
      THEN IF da_size(a) <= da_cap(a) - (da_cap(a) \div 2)
             THEN [a EXCEPT !.cap = da_cap(a) - (da_cap(a) \div 2)]
             ELSE a
      ELSE a

\* da_shrink(a): _da_shrink when the array is not empty
da_shrink(a) ==
    IF da_size(a) > 0
      THEN IF da_size(a) <= da_cap(a) - (da_cap(a) \div 3)
             THEN [a EXCEPT !.cap = da_cap(a) - (da_cap(a) \div 3)]
             ELSE a
      ELSE a

----------------------------------------------------------------------------
(* Dynamic arrays: one action per library call *)

Size(a) == IF ~IsNull(a) THEN a.size ELSE 0
Cap(a) == IF ~IsNull(a) THEN a.cap ELSE 0

\* arrays rf_da_concat may be given as its source when dest has n elements
SrcArrays(n) ==
    {[null |-> FALSE, size |-> Len(d), cap |-> START_CAP, data |-> d] :
        d \in (IF n < VarLen THEN {<<2>>, <<2, 1>>} ELSE {<<Filler>>, <<Filler, Filler>>})}

\* an array call may be made while the handle's header is defined
Defined == "uninit_read" \notin da_fault

Apply(r) ==
    /\ arr' = r.a
    /\ da_fault' = da_fault \cup r.faults

Push(v, g) ==
    /\ Defined
    /\ Size(arr) < MaxLen
    /\ Apply(IF da_variant = "rf_da" THEN rf_da_push(arr, v, g) ELSE da_push(arr, v, g))
    /\ UNCHANGED <<da_variant, pushed, last, beside_da>>

Insert(v, pos, g) ==
    /\ Defined
    /\ Size(arr) < MaxLen
    /\ Apply(IF da_variant = "rf_da" THEN rf__da_insert(arr, v, pos, g)
             ELSE da_insert(arr, v, pos, g))
    /\ UNCHANGED <<da_variant, pushed, last, beside_da>>

Pop ==
    /\ Defined
    /\ arr' = IF da_variant = "rf_da" THEN rf_da_pop(arr) ELSE da_pop(arr)
    /\ UNCHANGED <<da_variant, pushed, da_fault, last, beside_da>>

Erase(pos) ==
    /\ Defined
    /\ arr' = IF da_variant = "rf_da" THEN rf_da_erase(arr, pos) ELSE da_erase(arr, pos)
    /\ UNCHANGED <<da_variant, pushed, da_fault, last, beside_da>>

Clear ==
    /\ Defined
    /\ da_variant = "rf_da"
    /\ arr' = rf_da_clear(arr)
    /\ UNCHANGED <<da_variant, pushed, da_fault, last, beside_da>>

Concat(b, g) ==
    /\ Defined
    /\ da_variant = "rf_da"
    /\ Size(arr) + Size(b) <= MaxLen
    /\ Apply(rf_da_concat(arr, b, g))
    /\ UNCHANGED <<da_variant, pushed, last, beside_da>>

Shrink ==
    /\ Defined
    /\ da_variant = "da"
    /\ arr' = da_shrink(arr)
    /\ UNCHANGED <<da_variant, pushed, da_fault, last, beside_da>>

Free ==
    /\ Defined
    /\ arr' = IF da_variant = "rf_da" THEN rf_da_free(arr) ELSE da_free(arr)
    /\ UNCHANGED <<da_variant, pushed, da_fault, last, beside_da>>

\* push in a push-only run, which remembers what was pushed
PushOnly(v, g) ==
    /\ Defined
    /\ Len(pushed) < MaxPush
    /\ Apply(IF da_variant = "rf_da" THEN rf_da_push(arr, v, g) ELSE da_push(arr, v, g))
    /\ pushed' = Append(pushed, v)
    /\ UNCHANGED <<da_variant, last, beside_da>>

\* a char *builder = NULL; live: the block it points to has not been freed
NullStr == [null |-> TRUE, live |-> FALSE, size |-> 0, cap |-> 0, data |-> <<>>]

\* the string builder while another library runs
DSIdle ==
    /\ ds_variant = "rf_ds"
    /\ str = NullStr
    /\ ds_op = "none"
    /\ ds_fault = {}

\* array_size passed to rf_hash_init
ArraySize == 2
HashBuckets == 0 .. (ArraySize - 1)

\* rf_hash_init: array_size buckets, calloc'ed (all NULL)
HashInit ==
    /\ h_array = [b \in HashBuckets |-> NULL]
    /\ h_array_size = ArraySize
    /\ h_nodes = <<>>
    /\ h_ret = -1
    /\ h_out = 0
    /\ h_log = <<>>
    /\ h_fault = {}

\* the ids of the buttons a frame draws, in the order it draws them
Buttons == {1, 2}

\* rf_ui_init: nothing hot, nothing active, no keyboard focus
UIInit ==
    /\ ui_hot = -1
    /\ ui_active = -1
    /\ ui_focus = -1
    /\ ui_cursor_x = 0
    /\ ui_left_mouse = 0
    /\ ui_pc = 0
    /\ ui_ret = [b \in Buttons |-> 0]
    /\ ui_armed = [b \in Buttons |-> FALSE]
    /\ ui_frame = 0

\* no capacity computation under way
GrowIdle ==
    /\ g_fn = "rf_da"
    /\ g_required = [hi |-> 0, lo |-> 1]
    /\ g_cap = [hi |-> 0, lo |-> 0]
    /\ g_pc = "start"
    /\ g_iter = 0
    /\ g_wrapped = FALSE

\* the loader while another library runs
LoaderIdle ==
    /\ LoaderInit
    /\ variant = "mtr"
    /\ files = [s \in Slots |-> Absent]

DAInit ==
    /\ da_variant \in {"rf_da", "da"}
    /\ arr = NullArray
    /\ pushed = <<>>
    /\ da_fault = {}
    /\ last = NoOp

InitDA == LoaderIdle /\ DAInit /\ DSIdle /\ HashInit /\ UIInit /\ GrowIdle

NextDA ==
    \/ \E v \in ElemInputs(Size(arr)) : \E g \in Uninit : Push(v, g)
    \/ \E v \in ElemInputs(Size(arr)) : \E pos \in 0 .. Size(arr) : \E g \in Uninit :
          Insert(v, pos, g)
    \/ Pop
    \/ \E pos \in 0 .. (IF Size(arr) = 0 THEN 0 ELSE Size(arr) - 1) : Erase(pos)
    \/ Clear
    \/ \E b \in SrcArrays(Size(arr)) : \E g \in Uninit : Concat(b, g)
    \/ Shrink
    \/ Free

SpecDA == InitDA /\ [][NextDA]_vars

NextPush == \E v \in PushInputs(Len(pushed)) : \E g \in Uninit : PushOnly(v, g)

SpecPush == InitDA /\ [][NextPush]_vars

----------------------------------------------------------------------------
(* Dynamic arrays: runs that look back at the call made last *)

\* the library's push / insert / erase / concat on the handle
LibPush(a, v, g) == IF da_variant = "rf_da" THEN rf_da_push(a, v, g) ELSE da_push(a, v, g)
LibInsert(a, v, pos, g) ==
    IF da_variant = "rf_da" THEN rf__da_insert(a, v, pos, g) ELSE da_insert(a, v, pos, g)
LibErase(a, pos) == IF da_variant = "rf_da" THEN rf_da_erase(a, pos) ELSE da_erase(a, pos)

\* arrays given to rf_da_concat as its source when dest has n elements: the
\* empty one, and one or two of the values pushes would put at n, n + 1
SeqSrc(n) ==
    {NullArray} \cup
    {[null |-> FALSE, size |-> Len(d), cap |-> START_CAP, data |-> d] :
        d \in {<<v>> : v \in PushInputs(n)}
              \cup {<<v, w>> : v \in PushInputs(n), w \in PushInputs(n + 1)}}

\* the array is built up by pushes
Build(v, g) ==
    /\ Defined
    /\ last.op # "insert"
    /\ Size(arr) < MaxLen
    /\ Apply(LibPush(arr, v, g))
    /\ last' = NoOp
    /\ UNCHANGED <<da_variant, pushed, beside_da>>

\* insert(v, pos) with pos in 0 .. size ...
InsertThen(v, pos, g) ==
    /\ Defined
    /\ last.op # "insert"
    /\ Size(arr) < MaxLen
    /\ Apply(LibInsert(arr, v, pos, g))
    /\ last' = [op |-> "insert", saved |-> arr, pos |-> pos, src |-> NullArray]
    /\ UNCHANGED <<da_variant, pushed, beside_da>>

\* ... followed immediately by erase(pos)
ThenErase ==
    /\ Defined
    /\ last.op = "insert"
    /\ arr' = LibErase(arr, last.pos)
    /\ last' = [last EXCEPT !.op = "erase"]
    /\ UNCHANGED <<da_variant, pushed, da_fault, beside_da>>

\* rf_da_concat(a, b)
ConcatThen(b, g) ==
    /\ Defined
    /\ da_variant = "rf_da"
    /\ last.op # "insert"
    /\ Size(arr) + Size(b) <= MaxLen
    /\ Apply(rf_da_concat(arr, b, g))
    /\ last' = [op |-> "concat", saved |-> arr, pos |-> 0, src |-> b]
    /\ UNCHANGED <<da_variant, pushed, beside_da>>

NextSeq ==
    \/ \E v \in PushInputs(Size(arr)) : \E g \in Uninit : Build(v, g)
    \/ \E v \in Values : \E pos \in 0 .. Size(arr) : \E g \in Uninit :
          InsertThen(v, pos, g)
    \/ ThenErase
    \/ \E b \in SeqSrc(Size(arr)) : \E g \in Uninit : ConcatThen(b, g)

SpecSeq == InitDA /\ [][NextSeq]_vars

----------------------------------------------------------------------------
(* Claims about the dynamic arrays *)

\* C9: from a NULL array, after any N pushes the size is N, the capacity is
\* at least N, and the value of the i-th push is read unchanged at index i,
\* across every reallocation, in both libraries.
C9_PushGrowth ==
    /\ Size(arr) = Len(pushed)
    /\ Cap(arr) >= Len(pushed)
    /\ \A i \in 1 .. Len(pushed) : arr.data[i] = pushed[i]
    /\ "out_of_bounds" \notin da_fault

C9_Witness ==
    /\ Len(pushed) = MaxPush
    /\ Cap(arr) > 2 * START_CAP
    /\ arr.data = pushed

\* C10: after any sequence of push, insert, pop, erase, clear, concat, shrink
\* and free the size is at most the capacity, and no element was written at
\* or beyond index capacity.
C10_SizeWithinCapacity ==
    /\ Size(arr) <= Cap(arr)
    /\ "out_of_bounds" \notin da_fault

\* C11: for every array (the NULL one included) and every pos in 0 .. size,
\* insert(v, pos) followed immediately by erase(pos) leaves the size and the
\* element at every index as they were before the insert.
C11_InsertEraseInverse ==
    last.op = "erase" =>
        /\ Size(arr) = Size(last.saved)
        /\ \A i \in 1 .. Size(last.saved) : arr.data[i] = last.saved.data[i]

C11_Witness ==
    /\ last.op = "erase"
    /\ last.pos = 1
    /\ Size(arr) = START_CAP
    /\ Cap(last.saved) = START_CAP
    /\ Cap(arr) > START_CAP

\* C12: rf_da_concat(a, b) leaves a holding its former elements followed by
\* b's in order, its size the sum of the two sizes, for every a, the NULL one
\* included; with an empty b it changes nothing.
C12_Concat ==
    last.op = "concat" =>
        /\ Size(arr) = Size(last.saved) + Size(last.src)
        /\ arr.data = last.saved.data \o last.src.data
        /\ (Size(last.src) = 0 => arr = last.saved)


----------------------------------------------------------------------------
(* Dynamic arrays: the state while only the loader runs *)

DAIdle ==
    /\ da_variant = "rf_da"
    /\ arr = NullArray
    /\ pushed = <<>>
    /\ da_fault = {}
    /\ last = NoOp

----------------------------------------------------------------------------
(* Loader: specification *)

Init == LoaderInit /\ DAIdle /\ DSIdle /\ HashInit /\ UIInit /\ GrowIdle

Next ==
    \/ \E s \in Slots : request_call(s)
    \/ request_write
    \/ request_lock
    \/ request_set
    \/ update_call
    \/ update_branch
    \/ update_trylock
    \/ update_read
    \/ update_join
    \/ \E h \in BOOLEAN : update_spawn(h)
    \/ \E s \in Slots : resource_ready_lock(s)
    \/ resource_ready_body
    \/ \E s \in Slots : grab_lock(s)
    \/ grab_body
    \/ clean_up_mtr
    \/ \E h \in BOOLEAN : clean_up_rf_join(h)
    \/ clean_up_rf_free
    \/ lt_step
    \/ lt_use_after_free

Spec == Init /\ [][Next]_vars

\* The loader while it is in use and no undefined join kills the process:
\* no clean_up, and the join on a stale handle returns its error code.
LiveNext ==
    \/ \E s \in Slots : request_call(s)
    \/ request_write
    \/ request_lock
    \/ request_set
    \/ update_call
    \/ update_branch
    \/ update_trylock
    \/ update_read
    \/ update_join
    \/ update_spawn(FALSE)
    \/ \E s \in Slots : resource_ready_lock(s)
    \/ resource_ready_body
    \/ \E s \in Slots : grab_lock(s)
    \/ grab_body
    \/ lt_step

\* a call that has been made runs to its return
caller_continue ==
    \/ request_write
    \/ request_lock
    \/ request_set
    \/ update_branch
    \/ update_trylock
    \/ update_read
    \/ update_join
    \/ update_spawn(FALSE)
    \/ resource_ready_body
    \/ grab_body

\* Scheduling: the caller calls mtr_update again and again, every call made
\* returns, and the load thread is not starved (it gets the mutex too).
LiveSpec ==
    /\ Init
    /\ [][LiveNext]_vars
    /\ SF_vars(update_call)
    /\ SF_vars(caller_continue)
    /\ SF_vars(lt_step)

----------------------------------------------------------------------------
(* Loader: which shared fields the next step of each thread touches *)

\* an access: <<field, slot, "r" or "w">>; the loader's own flags use slot -1
CallerAccess ==
    CASE cpc = "req"      -> {<<"res_need_load", c_idx, "w">>}
      [] cpc = "req_set"  -> {<<"need_load", -1, "w">>}
      [] cpc = "upd"      -> IF is_loading = 0 THEN {<<"need_load", -1, "r">>} ELSE {}
      [] cpc = "upd_read" -> {<<"need_finish", -1, "r">>}
      [] cpc = "upd_join" -> {<<"need_load", -1, "w">>, <<"need_finish", -1, "w">>}
      [] cpc = "rdy"      -> {<<"res_data", c_idx, "r">>}
      [] cpc = "grab"     -> {<<"res_data", c_idx, "w">>, <<"res_data_len", c_idx, "w">>}
      [] OTHER            -> {}

WorkerAccess ==
    CASE wpc = "check" /\ wi < NumResources -> {<<"res_need_load", wi, "r">>}
      [] wpc = "read_data" -> {<<"res_data", wi, "r">>}
      [] wpc = "store"     -> {<<"res_data", wi, "w">>, <<"res_data_len", wi, "w">>}
      [] wpc = "clear"     -> {<<"res_need_load", wi, "w">>}
      [] wpc = "fin"       -> {<<"need_finish", -1, "w">>}
      [] OTHER             -> {}

\* two accesses to the same field of the same slot, one of them a write
Conflict(a, b) == a[1] = b[1] /\ a[2] = b[2] /\ "w" \in {a[3], b[3]}

\* the loader is in use: not cleaned up, process alive
InUse == ncleanup = 0 /\ ~halted

----------------------------------------------------------------------------
(* Claims about the loader *)

\* C1: provided the caller keeps calling mtr_update, every request is
\* eventually serviced: a slot whose need_load flag is set eventually has it
\* cleared by a run of the load thread, with no further request needed.
C1_RequestEventuallyServiced ==
    \A s \in Slots : (res_need_load[s] = 1) ~> (res_need_load[s] = 0)

\* C2: happy path: for a slot whose file can be opened, once it is requested
\* and mtr_update keeps being called, the slot's data eventually becomes ready;
\* a grab of ready data returns 1 with the file's bytes and size, and the slot
\* is not ready right after it.
C2_HappyPath ==
    /\ \A s \in Slots :
          (res_need_load[s] = 1 /\ FileOpens(s)) ~> (ReadyResult(s) = 1)
    /\ [][(cpc = "grab" /\ cpc' = "idle" /\ GrabHasData(c_idx)) =>
              /\ ret' = 1
              /\ heap[out_data'].bytes = files[c_idx]
              /\ out_len' = Len(files[c_idx])
              /\ ReadyResult(c_idx)' = 0]_vars

\* C3: at most one load thread exists (created and not yet joined) in every
\* reachable state, and mtr_update reaches its pthread_create only when no
\* unjoined thread is left.
C3_AtMostOneWorker ==
    /\ nthreads <= 1
    /\ (cpc = "upd_spawn" => nthreads = 0)
    /\ (wpc # "none" <=> nthreads = 1)

C3_Witness == nthreads = 1 /\ wpc = "read" /\ cpc = "upd_trylock" /\ need_load = 1

\* C4: every access to the shared loader state is made under the mutex, so
\* that no state is reachable in which one thread writes a shared field while
\* the other thread accesses the same field and one of the two does not hold
\* the mutex.  (The two threads are never both inside the mutex, so a pair of
\* conflicting accesses that are both due always has one made without it.)
C4_NoUnlockedConflict ==
    InUse =>
        \A a \in CallerAccess : \A b \in WorkerAccess : ~Conflict(a, b)

\* C5: clean_up joins a load thread that is still alive before it frees the
\* payloads and the slot table: once the table is freed no load thread is
\* still running on it.
C5_CleanUpJoinsBeforeFree ==
    ~resources_live => wpc \in {"none", "done"}

\* C6: grab returns 1 and hands out the slot's pointer and length exactly when
\* the slot has data, and then clears both so the slot is not ready; with no
\* data it returns 0 and changes neither the slot nor the out-parameters; no
\* block is handed out twice, and none that a slot still holds.
C6_GrabTransfersOnce ==
    /\ [][(cpc = "grab" /\ cpc' = "idle") =>
            IF res_data[c_idx] # NULL
              THEN /\ ret' = 1
                   /\ out_data' = res_data[c_idx]
                   /\ out_len' = res_data_len[c_idx]
                   /\ res_data'[c_idx] = NULL
                   /\ res_data_len'[c_idx] = 0
                   /\ ReadyResult(c_idx)' = 0
                   /\ \A s \in Slots \ {c_idx} :
                         /\ res_data'[s] = res_data[s]
                         /\ res_data_len'[s] = res_data_len[s]
              ELSE /\ ret' = 0
                   /\ UNCHANGED <<res_data, res_data_len, out_data, out_len>>]_vars
    /\ [](\A i, j \in 1 .. Len(grabbed) : grabbed[i] = grabbed[j] => i = j)
    /\ [](\A i \in 1 .. Len(grabbed) : \A s \in Slots : res_data[s] # grabbed[i])

C6_Witness ==
    /\ Len(grabbed) = 2
    /\ grabbed[1] # grabbed[2]
    /\ ret = 1
    /\ cpc = "idle"
    /\ res_data[c_idx] = NULL

\* C7: when a pending slot's file cannot be opened the load thread stores no
\* data for it, goes on to clear its need_load flag, moves to the next slot,
\* and returns only after setting need_finish; such a slot never has data, so
\* ready and grab return 0 for it.
C7_MissingFile ==
    /\ [](InUse => \A s \in Slots : ~FileOpens(s) => res_data[s] = NULL)
    /\ [][(wpc = "open" /\ wpc' # "open" /\ ~FileOpens(wi)) =>
            wpc' = "lock3" /\ UNCHANGED <<slots, wi>>]_vars
    /\ [][(wpc = "clear" /\ wpc' # "clear") =>
            /\ res_need_load'[wi] = 0
            /\ wi' = wi + 1
            /\ wpc' = "check"]_vars
    /\ [](wpc = "done" => need_finish = 1)
    /\ [][(cpc \in {"rdy", "grab"} /\ cpc' = "idle" /\ ~FileOpens(c_idx)) =>
            ret' = 0]_vars

C7_Witness ==
    /\ files[0] = Absent
    /\ nreq = 1 /\ c_idx = 0
    /\ wpc = "done"
    /\ res_need_load[0] = 0
    /\ res_data[0] = NULL
    /\ cpc = "idle" /\ ret = 0

\* C8: a second clean_up on a loader that was cleaned up is a no-op: nothing
\* is freed twice and no thread is joined twice.
C8_CleanUpIdempotent ==
    [][ncleanup >= 1 =>
         UNCHANGED <<heap, resources_live, master_live, load_thread, nthreads,
                     mutex, fault, halted>>]_vars

----------------------------------------------------------------------------
(* String builders: rf_dstring.h, dstring.h and the older dstring *)

\* _RF_DSTRING_START_CAP / _DSTRING_START_CAP
DS_START_CAP == 32

\* longest content a run builds
MaxContent == 34
\* strings added while the content is shorter than this vary; later ones are
\* the filler string
DsVarLen == 1
\* length of the filler string
FillerLen == 16

FillerStr == [i \in 1 .. FillerLen |-> 99]
\* the C strings a call may be given (no byte of them is 0)
AddInputs(n) == IF n < DsVarLen THEN {<<>>, <<97>>, <<98, 97>>} ELSE {FillerStr}

\* uint32_t values as two 16-bit halves
Half == 65536
ToU32(n) == [hi |-> n \div Half, lo |-> n % Half]
Val(u) == u.hi * Half + u.lo
\* a - b on uint32_t
Sub32(a, b) ==
    LET lo == a.lo - b.lo
        borrow == IF lo < 0 THEN 1 ELSE 0
    IN  [hi |-> (a.hi - b.hi - borrow) % Half, lo |-> lo % Half]

\* ds_size(a) / ds_cap(a)
ds_size(a) == IF ~a.null THEN a.size ELSE 0
ds_cap(a) == IF ~a.null THEN a.cap ELSE 0

\* rf_ds_length tests the size before it subtracts
rf_ds_length(a) ==
    IF ds_size(a) > 0 THEN Sub32(ToU32(ds_size(a)), ToU32(1)) ELSE ToU32(0)

\* ds_length(a) of dstring.h and of the older dstring: (ds_size(a) - 1)
ds_length(a) == Sub32(ToU32(ds_size(a)), ToU32(1))

\* the length macro of the variant in use
Length(a) == IF ds_variant = "rf_ds" THEN rf_ds_length(a) ELSE ds_length(a)

\* while(required_chars >= new_cap) new_cap = 3 * (new_cap / 2);
RECURSIVE GrowCap(_, _)
GrowCap(new_cap, required_chars) ==
    IF required_chars >= new_cap
      THEN GrowCap(3 * (new_cap \div 2), required_chars)
      ELSE new_cap

\* a grow that never went beyond the start capacity (what C14 rules out)
ds_grow_to_start_cap(dstr, required_chars) ==
    IF ds_cap(dstr) < required_chars
      THEN [null |-> FALSE, live |-> TRUE,
            size |-> dstr.size, data |-> dstr.data, cap |-> DS_START_CAP]
      ELSE dstr

\* _ds_grow: realloc when cap < required_chars, then write the cap word
ds_grow(dstr, required_chars) ==
    IF ds_cap(dstr) < required_chars
      THEN [null |-> FALSE, live |-> TRUE,
            size |-> dstr.size, data |-> dstr.data,
            cap  |-> GrowCap(IF ds_cap(dstr) > DS_START_CAP THEN ds_cap(dstr)
                             ELSE DS_START_CAP, required_chars)]
      ELSE dstr

\* ds_new: the formatted text and its terminator, size = its length + 1
ds_new(s) ==
    LET required_len == Len(s) + 1
        dstr == ds_grow(NullStr, required_len)
    IN  [dstr EXCEPT !.data = s \o <<0>>, !.size = required_len]

\* an insert that put the text at the end whatever pos is (what C17 rules out)
ds_insert_s_at_end(s, add, pos) ==
    IF ~s.null
      THEN [s EXCEPT !.data = SubSeq(s.data, 1, s.size - 1) \o add \o <<0>>,
                     !.size = ds_size(s) + Len(add)]
      ELSE ds_new(add)

\* _ds_insert_s(str, add, pos), pos a uint32_t
ds_insert_s(s, add, pos) ==
    IF ~s.null
      THEN LET add_str_len == Len(add)
               new_len == ds_size(s) + add_str_len
               s1 == IF ds_cap(s) < new_len THEN ds_grow(s, new_len) ELSE s
               p == Val(pos)
           IN  [s1 EXCEPT !.data = SubSeq(s.data, 1, p) \o add
                                     \o SubSeq(s.data, p + 1, s.size),
                          !.size = new_len]
      ELSE ds_new(add)

\* ds_add_s(a, s): insert at ds_length(a)
ds_add_s(a, s) == ds_insert_s(a, s, Length(a))

\* ds_free(a): the older dstring frees the block and keeps the pointer
ds_free(a) ==
    IF ~a.null
      THEN IF ds_variant = "ds0" THEN [a EXCEPT !.live = FALSE] ELSE NullStr
      ELSE a

\* the size below which _ds_erase frees: 2 in rf_dstring.h, 1 in the others
EraseFrees(size) == IF ds_variant = "rf_ds" THEN size < 2 ELSE size < 1

\* _ds_erase(str, i)
ds_erase(s, i) ==
    LET s1 == [s EXCEPT !.data = RemoveAt(s.data, i), !.size = s.size - 1]
    IN  IF EraseFrees(s1.size) THEN ds_free(s1) ELSE s1

----------------------------------------------------------------------------
(* String builders: one action per library call *)

\* the bytes before the terminator, and how many they are
Content(a) == IF a.null THEN <<>> ELSE SubSeq(a.data, 1, a.size - 1)
ContentLen(a) == IF a.null THEN 0 ELSE a.size - 1

\* the handle is NULL or points to a block that has not been freed
DsUsable == str.null \/ str.live

DsApply(s1, op) ==
    /\ str' = s1
    /\ ds_op' = op
    /\ ds_fault' = ds_fault \cup Overrun(ds_size(s1), ds_cap(s1))
    /\ UNCHANGED <<ds_variant, beside_ds>>

\* a = ds_new(s)
DsNew(s) ==
    /\ DsUsable
    /\ str.null
    /\ DsApply(ds_new(s), "new")

\* ds_insert_s(a, s, pos), pos in 0 .. content length
DsInsert(s, pos) ==
    /\ DsUsable
    /\ ContentLen(str) + Len(s) <= MaxContent
    /\ DsApply(ds_insert_s(str, s, ToU32(pos)), "insert")

\* ds_add_s(a, s)
DsAdd(s) ==
    /\ DsUsable
    /\ ContentLen(str) + Len(s) <= MaxContent
    /\ DsApply(ds_add_s(str, s), "add")

\* ds_erase(a, pos), pos in 0 .. content length - 1
DsErase(pos) ==
    /\ DsUsable
    /\ pos < ContentLen(str)
    /\ DsApply(ds_erase(str, pos), "erase")

\* ds_free(a)
DsFree ==
    /\ DsUsable
    /\ DsApply(ds_free(str), "free")

\* ds_free(a) on a pointer whose block was freed already
DsFreeAgain ==
    /\ ~DsUsable
    /\ "double_free" \notin ds_fault
    /\ ds_fault' = ds_fault \cup {"double_free"}
    /\ ds_op' = "free"
    /\ UNCHANGED <<ds_variant, str, beside_ds>>

DSInit ==
    /\ ds_variant \in {"rf_ds", "ds", "ds0"}
    /\ str = NullStr
    /\ ds_op = "none"
    /\ ds_fault = {}

InitDS == LoaderIdle /\ DAIdle /\ DSInit /\ HashInit /\ UIInit /\ GrowIdle

NextDS ==
    \/ \E s \in AddInputs(0) : DsNew(s)
    \/ \E s \in AddInputs(ContentLen(str)) : \E pos \in 0 .. ContentLen(str) :
          DsInsert(s, pos)
    \/ \E s \in AddInputs(ContentLen(str)) : DsAdd(s)
    \/ \E pos \in 0 .. ContentLen(str) : DsErase(pos)
    \/ DsFree
    \/ DsFreeAgain

SpecDS == InitDS /\ [][NextDS]_vars

----------------------------------------------------------------------------
(* Claims about release and about the string builders *)

\* C13: free on a non-empty handle releases the storage and resets the handle
\* to NULL, so that size and capacity then report 0, and a second free frees
\* nothing again.
C13_ReleaseIdempotent ==
    /\ ds_op = "free" => (str.null /\ ds_size(str) = 0 /\ ds_cap(str) = 0)
    /\ "double_free" \notin ds_fault

\* C14: after new and after every add, insert and erase that leaves the
\* builder allocated, size <= capacity, the byte at index size - 1 is the 0
\* terminator and no byte before it is 0 (strlen is size - 1).
C14_Terminator ==
    (~str.null /\ str.live /\ ds_op \in {"new", "insert", "add", "erase"}) =>
        /\ str.size <= str.cap
        /\ "out_of_bounds" \notin ds_fault
        /\ str.size >= 1
        /\ Len(str.data) = str.size
        /\ str.data[str.size] = 0
        /\ \A i \in 1 .. (str.size - 1) : str.data[i] # 0

C14_Witness ==
    /\ ds_op = "erase"
    /\ ~str.null /\ str.live
    /\ str.cap > DS_START_CAP
    /\ str.size = DS_START_CAP + 1
    /\ str.data[str.size] = 0

\* C15: the length query returns size - 1 when size > 0 and 0 for a NULL
\* builder; it never wraps below zero.
C15_Length ==
    DsUsable =>
        Length(str) = ToU32(IF ds_size(str) > 0 THEN ds_size(str) - 1 ELSE 0)

\* C16: erase(pos) with pos < content length removes exactly the byte at pos;
\* when the content length becomes 0 the builder is released and the handle
\* becomes NULL, otherwise it stays allocated with the content one shorter.
C16_EraseToEmpty ==
    [][\A pos \in 0 .. (ContentLen(str) - 1) :
          DsErase(pos) =>
              /\ Content(str') = RemoveAt(Content(str), pos)
              /\ IF ContentLen(str) = 1
                   THEN str'.null
                   ELSE /\ ~str'.null /\ str'.live
                        /\ ContentLen(str') = ContentLen(str) - 1]_vars

\* C17: insert_string(s, pos) with pos in 0 .. content length yields the old
\* content before pos, then s, then the old content from pos on, the content
\* length grown by strlen(s); append is the case pos = content length, and an
\* append to a NULL builder yields exactly the appended text.
C17_Insert ==
    [][\A s \in AddInputs(ContentLen(str)) :
          /\ \A pos \in 0 .. ContentLen(str) :
                DsInsert(s, pos) =>
                    /\ Content(str') = SubSeq(Content(str), 1, pos) \o s
                           \o SubSeq(Content(str), pos + 1, ContentLen(str))
                    /\ ContentLen(str') = ContentLen(str) + Len(s)
          /\ DsAdd(s) =>
                /\ Content(str') = Content(str) \o s
                /\ ContentLen(str') = ContentLen(str) + Len(s)
                /\ (str.null => str'.data = s \o <<0>>)]_vars

C17_Witness ==
    /\ ds_op = "insert"
    /\ str.cap > DS_START_CAP
    /\ Content(str) = FillerStr \o <<97>> \o FillerStr

----------------------------------------------------------------------------
(* Hash table: rf_hashtable.h *)

\* calls per run
MaxHashCalls == 4
\* keys given by the caller, and the caller's hash function on them
HashKeys == 0 .. 2
HashOf(key) == key
\* element values added
HashValues == {1, 2}

\* arr_pos = h->hash_function(key) % h->array_size
ArrPos(key) == HashOf(key) % h_array_size

\* the node at which for(i = first;; i = i->next) finds !i->next
RECURSIVE LastNode(_)
LastNode(i) == IF h_nodes[i].next = NULL THEN i ELSE LastNode(h_nodes[i].next)

\* the node before it on the chain (NULL when it is the first)
RECURSIVE NodeBefore(_, _)
NodeBefore(i, prev) ==
    IF h_nodes[i].next = NULL THEN prev ELSE NodeBefore(h_nodes[i].next, i)

\* the table can be used: no undefined behaviour yet, not cleaned up
HashUsable == h_fault = {} /\ h_array_size > 0 /\ Len(h_log) < MaxHashCalls

\* the bucket's first pointer is NULL or points to a node that was not freed
BucketSound(b) == IF h_array[b] = NULL THEN TRUE ELSE h_nodes[h_array[b]].live

\* _rf__hash_add: a new node at the end of the bucket's chain
rf_hash_add(key, v) ==
    /\ HashUsable
    /\ BucketSound(ArrPos(key))
    /\ LET new_node == Len(h_nodes) + 1
           node == [data |-> v, next |-> NULL, live |-> TRUE]
       IN  IF h_array[ArrPos(key)] # NULL
             THEN /\ h_nodes' = Append([h_nodes EXCEPT
                                          ![LastNode(h_array[ArrPos(key)])].next = new_node],
                                       node)
                  /\ UNCHANGED h_array
             ELSE /\ h_array' = [h_array EXCEPT ![ArrPos(key)] = new_node]
                  /\ h_nodes' = Append(h_nodes, node)
    /\ h_ret' = 1
    /\ h_log' = Append(h_log, [op |-> "add", key |-> key, value |-> v])
    /\ UNCHANGED <<h_array_size, h_out, h_fault, beside_hash>>

\* _rf__hash_delete: frees the last node of the bucket's chain and unlinks it
\* from the node before it, if there is one
rf_hash_delete(key) ==
    /\ HashUsable
    /\ BucketSound(ArrPos(key))
    /\ IF h_array[ArrPos(key)] # NULL
         THEN LET i == LastNode(h_array[ArrPos(key)])
                  prev == NodeBefore(h_array[ArrPos(key)], NULL)
              IN  /\ h_nodes' = IF prev # NULL
                                  THEN [h_nodes EXCEPT ![prev].next = NULL,
                                                       ![i].live = FALSE]
                                  ELSE [h_nodes EXCEPT ![i].live = FALSE]
                  /\ h_ret' = 1
         ELSE /\ h_ret' = 0
              /\ UNCHANGED h_nodes
    /\ h_log' = Append(h_log, [op |-> "delete", key |-> key, value |-> 0])
    /\ UNCHANGED <<h_array, h_array_size, h_out, h_fault, beside_hash>>

\* _rf__hash_get: copies the data of the last node of the bucket's chain
rf_hash_get(key) ==
    /\ HashUsable
    /\ BucketSound(ArrPos(key))
    /\ IF h_array[ArrPos(key)] # NULL
         THEN /\ h_out' = h_nodes[LastNode(h_array[ArrPos(key)])].data
              /\ h_ret' = 1
         ELSE /\ h_ret' = 0
              /\ UNCHANGED h_out
    /\ h_log' = Append(h_log, [op |-> "get", key |-> key, value |-> 0])
    /\ UNCHANGED <<h_array, h_array_size, h_nodes, h_fault, beside_hash>>

\* add, delete or get on a bucket whose first pointer is to a freed node
rf_hash_use_freed(op, key) ==
    /\ HashUsable
    /\ ~BucketSound(ArrPos(key))
    /\ h_fault' = h_fault \cup {"use_after_free"}
    /\ h_log' = Append(h_log, [op |-> op, key |-> key, value |-> 0])
    /\ UNCHANGED <<h_array, h_array_size, h_nodes, h_ret, h_out, beside_hash>>

\* _rf__hash_clean_up: frees every node on every chain, then the array
rf_hash_clean_up ==
    /\ HashUsable
    /\ IF \A b \in HashBuckets : BucketSound(b)
         THEN /\ h_nodes' = [n \in 1 .. Len(h_nodes) |-> [h_nodes[n] EXCEPT !.live = FALSE]]
              /\ h_array' = [b \in HashBuckets |-> NULL]
              /\ h_array_size' = 0
              /\ UNCHANGED h_fault
         ELSE /\ h_fault' = h_fault \cup {"use_after_free", "double_free"}
              /\ UNCHANGED <<h_array, h_array_size, h_nodes>>
    /\ h_log' = Append(h_log, [op |-> "clean_up", key |-> 0, value |-> 0])
    /\ UNCHANGED <<h_ret, h_out, beside_hash>>

InitHash == LoaderIdle /\ DAIdle /\ DSIdle /\ HashInit /\ UIInit /\ GrowIdle

NextHash ==
    \/ \E k \in HashKeys : \E v \in HashValues : rf_hash_add(k, v)
    \/ \E k \in HashKeys : rf_hash_delete(k)
    \/ \E k \in HashKeys : rf_hash_get(k)
    \/ \E k \in HashKeys : \E op \in {"add", "delete", "get"} : rf_hash_use_freed(op, k)
    \/ rf_hash_clean_up

SpecHash == InitHash /\ [][NextHash]_vars

----------------------------------------------------------------------------
(* Claims about the hash table *)

\* what the first n calls have left stored under key k, oldest first: each add
\* under k appends its value, each delete under k takes the last one away
RECURSIVE StoredUnder(_, _)
StoredUnder(k, n) ==
    IF n = 0 THEN <<>>
    ELSE LET c == h_log[n]
             s == StoredUnder(k, n - 1)
         IN  IF c.op = "clean_up" THEN <<>>
             ELSE IF c.key # k THEN s
             ELSE IF c.op = "add" THEN Append(s, c.value)
             ELSE IF c.op = "delete" /\ s # <<>> THEN SubSeq(s, 1, Len(s) - 1)
             ELSE s

\* the call made last, and what was stored under its key before it
LastCall == h_log[Len(h_log)]
StoredBefore == StoredUnder(LastCall.key, Len(h_log) - 1)

\* C18: rf_hash_get(h, k, &out) returns 1 and copies the value most recently
\* added under k, also when other keys of the same bucket were added later,
\* and returns 0 for a key under which nothing is stored.
C18_Get ==
    (h_log # <<>> /\ h_fault = {} /\ LastCall.op = "get") =>
        IF StoredBefore # <<>>
          THEN h_ret = 1 /\ h_out = StoredBefore[Len(StoredBefore)]
          ELSE h_ret = 0

\* C19: rf_hash_delete(h, k) returns 1 when something is stored under k and 0
\* when nothing is, and after it the table references no freed node: no
\* bucket and no node of a chain points to one.
C19_Delete ==
    (h_log # <<>> /\ h_fault = {} /\ LastCall.op = "delete") =>
        /\ h_ret = (IF StoredBefore # <<>> THEN 1 ELSE 0)
        /\ \A b \in HashBuckets : BucketSound(b)
        /\ \A n \in 1 .. Len(h_nodes) :
              (h_nodes[n].live /\ h_nodes[n].next # NULL) => h_nodes[h_nodes[n].next].live

----------------------------------------------------------------------------
(* UI: rf_ui.h, buttons in mouse mode *)

\* frames per run
MaxFrames == 4
\* where the cursor may be, and the x and w each button is drawn with
\* (cursor_y is inside every button)
CursorXs == 0 .. 4
ButtonX(id) == IF id = 1 THEN 0 ELSE 3
ButtonW(id) == 1

\* _rf__ui_id_equ(id1, id2)
rf_ui_id_equ(id1, id2) == (id1 * 10000) = (id2 * 10000)
\* _rf__ui_cursor_over(ui, x, y, w, h)
rf_ui_cursor_over(x, w) == ui_cursor_x >= x /\ ui_cursor_x <= x + w

\* rf_ui_begin, then the caller writes this frame's cursor and controls
rf_ui_begin(cx, left_mouse_down) ==
    /\ ui_pc = 0
    /\ ui_frame < MaxFrames
    /\ ui_frame' = ui_frame + 1
    /\ ui_cursor_x' = cx
    /\ ui_left_mouse' = left_mouse_down
    /\ ui_pc' = 1
    /\ UNCHANGED <<ui_hot, ui_active, ui_focus, ui_ret, ui_armed, beside_ui>>

\* ui->hot after the cursor test of rf_button
HotAfterCursor(id) ==
    IF rf_ui_cursor_over(ButtonX(id), ButtonW(id))
      THEN IF ui_hot < 0 THEN id ELSE ui_hot
      ELSE IF rf_ui_id_equ(ui_hot, id) THEN -1 ELSE ui_hot

\* ui->active after rf_button: set when the button is hot and the mouse down
ActiveAfter(id, hot) ==
    IF rf_ui_id_equ(hot, id) /\ ui_left_mouse # 0 THEN id ELSE ui_active

\* activated: the cursor is over, the button is active, the mouse is up
Activated(id) ==
    IF rf_ui_cursor_over(ButtonX(id), ButtonW(id))
         /\ rf_ui_id_equ(ui_active, id) /\ ui_left_mouse = 0
      THEN 1 ELSE 0

\* rf_button(ui, id, x, y, w, h) with ui->focusing = 0; the frame then goes
\* on to the next button, or to its end
rf_button(id) ==
    /\ ui_pc = id
    /\ IF ui_focus < 0
         THEN /\ ui_hot' = HotAfterCursor(id)
              /\ ui_active' = ActiveAfter(id, HotAfterCursor(id))
              /\ ui_ret' = [ui_ret EXCEPT ![id] = Activated(id)]
         ELSE /\ ui_ret' = [ui_ret EXCEPT ![id] = 0]
              /\ UNCHANGED <<ui_hot, ui_active>>
    /\ ui_armed' = [ui_armed EXCEPT ![id] =
                      IF ui_left_mouse # 0 /\ rf_ui_cursor_over(ButtonX(id), ButtonW(id))
                        THEN TRUE
                        ELSE IF ui_ret'[id] = 1 THEN FALSE ELSE @]
    /\ ui_pc' = id + 1
    /\ UNCHANGED <<ui_focus, ui_cursor_x, ui_left_mouse, ui_frame, beside_ui>>

\* rf_ui_end: with no focus ids registered the focus stays as it is
rf_ui_end ==
    /\ ui_pc = 3
    /\ ui_pc' = 0
    /\ UNCHANGED <<ui_hot, ui_active, ui_focus, ui_cursor_x, ui_left_mouse,
                   ui_ret, ui_armed, ui_frame, beside_ui>>

InitUI == LoaderIdle /\ DAIdle /\ DSIdle /\ HashInit /\ UIInit /\ GrowIdle

NextUI ==
    \/ \E cx \in CursorXs : \E m \in {0, 1} : rf_ui_begin(cx, m)
    \/ \E id \in Buttons : rf_button(id)
    \/ rf_ui_end

SpecUI == InitUI /\ [][NextUI]_vars

----------------------------------------------------------------------------
(* Claims about the UI *)

\* C20: in mouse mode rf_button returns 1 only in a frame where the left
\* mouse button is up, the cursor is over the button and the button was
\* pressed on in an earlier frame, and at most once per press and release:
\* with no new press it returns 0 in the later frames.
C20_ButtonClick ==
    [][\A id \in Buttons :
          (ui_pc = id /\ ui_pc' # id /\ ui_ret'[id] = 1) =>
              /\ ui_left_mouse = 0
              /\ rf_ui_cursor_over(ButtonX(id), ButtonW(id))
              /\ ui_armed[id]]_vars

----------------------------------------------------------------------------
(* Further claims about the loader *)

\* the positions of the caller inside mtr_update
UpdatePcs == {"upd", "upd_trylock", "upd_read", "upd_join", "upd_spawn"}

C22_PayloadPopulation ==
    /\ [][(wpc = "store" /\ wpc' # "store") =>
            /\ res_need_load[wi] = 1
            /\ res_data[wi] = NULL
            /\ res_data'[wi] = w_buffer
            /\ w_buffer = Len(heap) /\ heap[w_buffer].live
            /\ heap[w_buffer].bytes = files[wi]
            /\ \A s \in Slots \ {wi} : res_data'[s] = res_data[s]
            /\ wpc' = "lock3" /\ wi' = wi]_vars
    /\ [][(wpc \in {"lock3", "clear"} /\ wpc' # wpc) =>
            \/ wpc = "lock3" /\ wpc' = "clear" /\ wi' = wi
            \/ wpc = "clear" /\ wpc' = "check" /\ wi' = wi + 1]_vars
    /\ [][(wpc # "none" /\ wpc' # "none") => wi' >= wi]_vars
    /\ [][\A s \in Slots :
            (res_data[s] # res_data'[s] /\ res_data'[s] # NULL) =>
                wpc = "store" /\ wi = s /\ res_data[s] = NULL
                /\ res_need_load[s] = 1]_vars
    /\ [](\A b \in DOMAIN heap :
            \/ b = w_buffer
            \/ \E s \in Slots : res_data[s] = b
            \/ \E i \in DOMAIN grabbed : grabbed[i] = b)

\* slot 0 was loaded, grabbed, requested again and loaded again by a second
\* run of the load thread
C22_Witness ==
    /\ files[1] = Absent
    /\ Len(heap) = 2
    /\ grabbed = <<1>>
    /\ res_data[0] = 2 /\ res_data[1] = NULL
    /\ ncleanup = 0 /\ ~halted

\* C23: the load thread holds the mutex exactly in its four critical
\* sections and never while it opens or reads a file; a step it takes inside
\* the mutex touches only slot fields or need_finish (no file, no heap block);
\* the caller holds the mutex exactly between the lock and the unlock of
\* request, update, ready and grab, so neither thread still holds it when its
\* operation has returned, and a caller waiting for the mutex never waits for
\* file I/O.
C23_LockScope ==
    /\ [](mutex = "worker" <=> wpc \in {"read_data", "store", "clear", "fin"})
    /\ [](mutex = "main" <=> cpc \in {"req_set", "upd_read", "rdy", "grab"})
    /\ [](wpc \in {"open", "read", "done", "none"} => mutex # "worker")
    /\ [](cpc = "idle" => mutex # "main")
    /\ [][(mutex = "worker" /\ wpc' # wpc) =>
            /\ mutex' = "free"
            /\ UNCHANGED <<files, heap, need_load, is_loading, load_thread>>
            /\ (wpc # "fin" => UNCHANGED need_finish)
            /\ (wpc = "fin" => UNCHANGED <<res_need_load, res_data, res_data_len>>)]_vars
    /\ [][(wpc \in {"open", "read"} /\ wpc' # wpc) =>
            UNCHANGED <<mutex, res_need_load, res_data, res_data_len, flags>>]_vars

\* the caller is inside grab, holding the mutex, while the load thread reads
\* a file
C23_Witness == wpc = "read" /\ cpc = "grab" /\ mutex = "main" /\ ~halted

----------------------------------------------------------------------------
(* Further claims about the dynamic arrays *)

\* C24: insert(v, pos) with 0 <= pos <= size leaves the elements below pos as
\* they were, puts v at pos, moves each former element at i in pos .. size - 1
\* to i + 1 and adds one to the size; push(v) gives the same array as
\* insert(v, size).  Both libraries.
C24_Insert ==
    [][IF last'.op = "insert"
         THEN \A v \in Values : \A g \in Uninit :
                InsertThen(v, last'.pos, g) =>
                    LET pos == last'.pos
                    IN  /\ pos \in 0 .. Size(arr)
                        /\ Size(arr') = Size(arr) + 1
                        /\ Len(arr'.data) = Size(arr')
                        /\ \A i \in 1 .. pos : arr'.data[i] = arr.data[i]
                        /\ arr'.data[pos + 1] = v
                        /\ \A i \in (pos + 1) .. Size(arr) :
                              arr'.data[i + 1] = arr.data[i]
         ELSE \A v \in PushInputs(Size(arr)) : \A g \in Uninit :
                Build(v, g) => arr' = LibInsert(arr, v, Size(arr), g).a]_vars

\* an insert into the middle of a full array of START_CAP elements
C24_Witness ==
    /\ last.op = "insert"
    /\ last.pos = 1
    /\ Size(last.saved) = START_CAP
    /\ Size(arr) = START_CAP + 1
    /\ arr.data[START_CAP + 1] = last.saved.data[START_CAP]

----------------------------------------------------------------------------
(* Capacity computations on uint32_t: _rf__da_grow, _rf__ds_grow, _ds_grow *)

\* iterations of the grow loop a run may make
MaxIter == 64

\* 2^k as a uint32_t, k in 0 .. 31
Pow2U(k) == IF k < 16 THEN [hi |-> 0, lo |-> 2^k] ELSE [hi |-> 2^(k - 16), lo |-> 0]

\* a + b on uint32_t, and whether it wraps
Add32(a, b) ==
    LET lo == a.lo + b.lo
    IN  [hi |-> (a.hi + b.hi + lo \div Half) % Half, lo |-> lo % Half]
AddWraps(a, b) == a.hi + b.hi + (a.lo + b.lo) \div Half >= Half
\* a < b on uint32_t
Lt32(a, b) == a.hi < b.hi \/ (a.hi = b.hi /\ a.lo < b.lo)
\* a > b ? a : b
Max32(a, b) == IF Lt32(b, a) THEN a ELSE b
\* u >> k, k in 1 .. 16
Shr32(u, k) ==
    IF k = 16 THEN [hi |-> 0, lo |-> u.hi]
    ELSE [hi |-> u.hi \div 2^k,
          lo |-> (u.lo \div 2^k) + (u.hi % 2^k) * (Half \div 2^k)]
\* a | b
Or32(a, b) == [hi |-> BitOr(a.hi, b.hi), lo |-> BitOr(a.lo, b.lo)]
\* 3 * (c / 2) on uint32_t, and whether the product wraps
ThreeHalves(c) ==
    LET h == Shr32(c, 1)
    IN  [hi |-> (3 * h.hi + (3 * h.lo) \div Half) % Half, lo |-> (3 * h.lo) % Half]
ThreeHalvesWraps(c) ==
    LET h == Shr32(c, 1)
    IN  3 * h.hi + (3 * h.lo) \div Half >= Half

\* the required counts tried: the powers of two and their neighbours, and
\* UINT32_MAX
GrowRequired ==
    ({Pow2U(k) : k \in 0 .. 31}
       \cup {Add32(Pow2U(k), ToU32(1)) : k \in 0 .. 31}
       \cup {Sub32(Pow2U(k), ToU32(1)) : k \in 0 .. 31}
       \cup {Sub32(ToU32(0), ToU32(1))}) \ {ToU32(0)}
\* the capacities a builder may have when _ds_grow is called (0: NULL handle)
GrowCaps == {ToU32(0), ToU32(48)}

\* _rf__da_grow: new_cap = max(required, START_CAP) - 1, then the five
\* new_cap |= new_cap >> k
rf_new_cap_smeared(required_elements) ==
    LET c0 == Sub32(Max32(required_elements, ToU32(START_CAP)), ToU32(1))
        c1 == Or32(c0, Shr32(c0, 1))
        c2 == Or32(c1, Shr32(c1, 2))
        c3 == Or32(c2, Shr32(c2, 4))
        c4 == Or32(c3, Shr32(c3, 8))
    IN  Or32(c4, Shr32(c4, 16))

rf_da_grow_smear ==
    /\ g_fn = "rf_da" /\ g_pc = "start"
    /\ g_cap' = rf_new_cap_smeared(g_required)
    /\ g_pc' = "inc"
    /\ UNCHANGED <<g_fn, g_required, g_iter, g_wrapped, beside_grow>>

\* ++new_cap; the value is then written as the capacity
rf_da_grow_inc ==
    /\ g_fn = "rf_da" /\ g_pc = "inc"
    /\ g_cap' = Add32(g_cap, ToU32(1))
    /\ g_wrapped' = AddWraps(g_cap, ToU32(1))
    /\ g_pc' = "done"
    /\ UNCHANGED <<g_fn, g_required, g_iter, beside_grow>>

\* _rf__ds_grow / _ds_grow: if(cap < required) new_cap = max(cap, START_CAP)
ds_grow_enter ==
    /\ g_fn \in {"rf_ds", "ds"} /\ g_pc = "start"
    /\ IF Lt32(g_cap, g_required)
         THEN g_cap' = Max32(g_cap, ToU32(DS_START_CAP)) /\ g_pc' = "loop"
         ELSE g_cap' = g_cap /\ g_pc' = "done"
    /\ UNCHANGED <<g_fn, g_required, g_iter, g_wrapped, beside_grow>>

\* while(required_chars >= new_cap) { new_cap = 3 * (new_cap / 2); }
ds_grow_loop ==
    /\ g_fn \in {"rf_ds", "ds"} /\ g_pc = "loop"
    /\ IF ~Lt32(g_required, g_cap)
         THEN /\ g_iter < MaxIter
              /\ g_cap' = ThreeHalves(g_cap)
              /\ g_wrapped' = (g_wrapped \/ ThreeHalvesWraps(g_cap))
              /\ g_iter' = g_iter + 1
              /\ g_pc' = "loop"
         ELSE /\ g_pc' = "done"
              /\ UNCHANGED <<g_cap, g_wrapped, g_iter>>
    /\ UNCHANGED <<g_fn, g_required, beside_grow>>

GrowInit ==
    /\ g_fn \in {"rf_da", "rf_ds", "ds"}
    /\ g_required \in GrowRequired
    /\ g_cap \in (IF g_fn = "rf_da" THEN {ToU32(0)} ELSE GrowCaps)
    /\ g_pc = "start"
    /\ g_iter = 0
    /\ g_wrapped = FALSE

InitGrow == LoaderIdle /\ DAIdle /\ DSIdle /\ HashInit /\ UIInit /\ GrowInit

NextGrow ==
    \/ rf_da_grow_smear
    \/ rf_da_grow_inc
    \/ ds_grow_enter
    \/ ds_grow_loop

SpecGrow == InitGrow /\ [][NextGrow]_vars

----------------------------------------------------------------------------
(* Claims about the capacity computations *)

\* C25: for every required element count from 1 to UINT32_MAX, _rf__da_grow
\* computes as the capacity the smallest power of two that is at least
\* max(required, 32), and no step of the computation wraps around.
C25_GrowthPolicy ==
    (g_fn = "rf_da" /\ g_pc = "done") =>
        /\ ~g_wrapped
        /\ \E k \in 0 .. 31 : g_cap = Pow2U(k)
        /\ ~Lt32(g_cap, Max32(g_required, ToU32(START_CAP)))
        /\ Lt32(Shr32(g_cap, 1), Max32(g_required, ToU32(START_CAP)))

----------------------------------------------------------------------------
(* Claims about what array calls leave alone *)

\* C26: pop and erase never change the capacity and never release the
\* block, not even when they remove the last element; clear sets the size to 0
\* and leaves the capacity as it was; pop, erase and clear on an empty array
\* change nothing.  Both libraries.
C26_EraseFrame ==
    [][/\ (Pop \/ \E pos \in 0 .. (IF Size(arr) = 0 THEN 0 ELSE Size(arr) - 1) : Erase(pos)) =>
            /\ Cap(arr') = Cap(arr)
            /\ IsNull(arr') = IsNull(arr)
            /\ Size(arr') = (IF Size(arr) = 0 THEN 0 ELSE Size(arr) - 1)
            /\ (Size(arr) = 0 => arr' = arr)
       /\ Clear =>
            /\ Size(arr') = 0
            /\ Cap(arr') = Cap(arr)
            /\ IsNull(arr') = IsNull(arr)
            /\ (Size(arr) = 0 => arr' = arr)]_vars

\* C27: da_shrink on a non-empty array lowers the capacity to
\* cap - cap / 3 exactly when size <= cap - cap / 3 and otherwise leaves it;
\* it keeps the size and every element and never makes the capacity smaller
\* than the size; a push after any number of shrinks still finds or makes a
\* free slot.
C27_Shrink ==
    /\ [](da_variant = "da" => "out_of_bounds" \notin da_fault /\ Size(arr) <= Cap(arr))
    /\ [][Shrink =>
            LET kept == Cap(arr) - (Cap(arr) \div 3)
            IN  /\ Size(arr) > 0 =>
                     Cap(arr') = (IF Size(arr) <= kept THEN kept ELSE Cap(arr))
                /\ Size(arr') = Size(arr)
                /\ arr'.data = arr.data
                /\ Cap(arr') >= Size(arr')
                /\ (Size(arr) = 0 => arr' = arr)]_vars
    /\ [][da_variant = "da" =>
            \A v \in ElemInputs(Size(arr)) : \A g \in Uninit :
                Push(v, g) =>
                    /\ Size(arr') = Size(arr) + 1
                    /\ Cap(arr') >= Size(arr')
                    /\ arr'.data = Append(arr.data, v)
                    /\ da_fault' = da_fault]_vars

\* shrunk as far as it goes, and full
C27_Witness ==
    /\ da_variant = "da"
    /\ Cap(arr) = 2
    /\ Size(arr) = 2

----------------------------------------------------------------------------
(* Claims about the loader's thread handle *)

\* C28: every pthread_join made by mtr_update or clean_up is on a thread
\* that was created and not joined before: the handle is never joined when no
\* thread was ever created, and no thread is joined twice.
C28_JoinTargets ==
    /\ "invalid_join" \notin fault
    /\ (cpc \in {"upd_join", "upd_spawn"} => load_thread = "live")

----------------------------------------------------------------------------
(* Claims about the capacity after a concat *)

\* C29: rf_da_concat never lowers the capacity of the destination: after
\* concat(a, b) the capacity is at least what it was before the call.
C29_ConcatCapacity ==
    [][\A b \in SrcArrays(Size(arr)) : \A g \in Uninit :
          Concat(b, g) => Cap(arr') >= Cap(arr)]_vars

----------------------------------------------------------------------------
(* Claims about the string builder's capacity *)

\* C30: for every required size from 1 to UINT32_MAX the grow loop of
\* _rf__ds_grow / _ds_grow ends (within MaxIter iterations, more than the
\* exact sequence needs to pass UINT32_MAX), no 3 * (new_cap / 2) wraps
\* around, and the capacity it leaves is at least the required size, and
\* strictly above it whenever the loop ran.
C30_StringGrowth ==
    g_fn \in {"rf_ds", "ds"} =>
        /\ ~g_wrapped
        /\ g_iter < MaxIter
        /\ (g_pc = "done" =>
              /\ ~Lt32(g_cap, g_required)
              /\ (g_iter > 0 => Lt32(g_required, g_cap)))

====
